---- MODULE Spec2Model ----
(***************************************************************************)
(* become_yukarin/dataset/dataset.py: the data-transform pipeline.         *)
(*                                                                         *)
(* Arrays are modelled exactly in rational arithmetic (a number is a pair  *)
(* <<numerator, denominator>>, not-a-number is <<0, 0>>).  A matrix is a   *)
(* sequence of rows; an AcousticFeature field is time-major (frame, then   *)
(* column), an encoded tensor is feature-major (row, then frame).          *)
(***************************************************************************)
EXTENDS Integers, Sequences, FiniteSets, TLC

\* ---------------------------------------------------------------- bounds
MaxLen == 3        \* longest feature, in frames
MaxCrop == 2       \* largest train_crop_size
MaxWidth == 2      \* widest spectrogram / mfcc field, in columns
GenPeriod == 6     \* number of states of a pseudo-random generator
MaxPairs == 3      \* longest list of path pairs

VARIABLES
    grng,       \* state of the process-global numpy.random generator
    config,     \* DatasetConfig: features, train_crop_size, noise scales, num_test, seed
    files,      \* persisted features: path -> AcousticFeature
    moments,    \* input_mean, input_var, target_mean, target_var
    chains,     \* ChainProcess objects: object id -> its _process list
    datasets,   \* create()'s result: name -> DataProcessDataset (_data, _data_process)
    call,       \* per thread: the get_example call in progress
    hist,       \* per thread: what the stages of the call in progress were handed
    direct,     \* the last direct call of one transform: op, argument, test, result
    codec,      \* the last call of a feature-level transform
    cpc,        \* create(): position in the function body
    locals,     \* create(): its local variables
    memo        \* results of earlier create() calls, by configuration

vars == <<grng, config, files, moments, chains, datasets, call, hist, direct,
          codec, cpc, locals, memo>>

\* ------------------------------------------------------------ arithmetic
Abs(x) == IF x < 0 THEN -x ELSE x
Min(a, b) == IF a < b THEN a ELSE b
Max(a, b) == IF a < b THEN b ELSE a

RECURSIVE GCD(_, _)
GCD(a, b) == IF b = 0 THEN a ELSE GCD(b, a % b)

NaN == <<0, 0>>
IsNaN(x) == x[2] = 0
Rat(n, d) ==
    IF d = 0 THEN NaN
    ELSE LET s == IF d < 0 THEN -1 ELSE 1
             g == GCD(Abs(n), Abs(d))
         IN  <<(s * n) \div g, (s * d) \div g>>
Num(n) == <<n, 1>>
Zero == Num(0)
One == Num(1)

RAdd(a, b) == IF IsNaN(a) \/ IsNaN(b) THEN NaN ELSE Rat(a[1] * b[2] + b[1] * a[2], a[2] * b[2])
RSub(a, b) == IF IsNaN(a) \/ IsNaN(b) THEN NaN ELSE Rat(a[1] * b[2] - b[1] * a[2], a[2] * b[2])
RMul(a, b) == IF IsNaN(a) \/ IsNaN(b) THEN NaN ELSE Rat(a[1] * b[1], a[2] * b[2])
RDiv(a, b) == IF IsNaN(a) \/ IsNaN(b) THEN NaN ELSE Rat(a[1] * b[2], a[2] * b[1])

ISqrt(n) == CHOOSE r \in 0..n : r * r <= n /\ (r + 1) * (r + 1) > n
\* numpy.sqrt, exact on the squares the model draws variances from
RSqrt(a) == IF IsNaN(a) \/ a[1] < 0 THEN NaN ELSE <<ISqrt(a[1]), ISqrt(a[2])>>

\* --------------------------------------------------------------- matrices
\* A sequence, and a mapping over the three keys, held by value: every element
\* is computed once, when the array or the mapping is built.
array(s) == s \o << >>
Rows(M) == Len(M)
Cols(M) == IF Len(M) = 0 THEN 0 ELSE Len(M[1])

\* numpy broadcasting of an elementwise operation over two 2-D arrays: the
\* result has the larger extent on each axis, an axis of extent 1 is repeated
BRows(A, B) == Max(Rows(A), Rows(B))
BCols(A, B) == Max(Cols(A), Cols(B))
BAt(A, i, j) == A[Min(i, Rows(A))][Min(j, Cols(A))]
MatAdd(A, B) == array([i \in 1..BRows(A, B) |-> array([j \in 1..BCols(A, B) |-> RAdd(BAt(A, i, j), BAt(B, i, j))])])
MatSub(A, B) == array([i \in 1..BRows(A, B) |-> array([j \in 1..BCols(A, B) |-> RSub(BAt(A, i, j), BAt(B, i, j))])])
MatMul(A, B) == array([i \in 1..BRows(A, B) |-> array([j \in 1..BCols(A, B) |-> RMul(BAt(A, i, j), BAt(B, i, j))])])
MatDiv(A, B) == array([i \in 1..BRows(A, B) |-> array([j \in 1..BCols(A, B) |-> RDiv(BAt(A, i, j), BAt(B, i, j))])])

MatSqrt(M) == array([i \in 1..Rows(M) |-> array([j \in 1..Cols(M) |-> RSqrt(M[i][j])])])

RECURSIVE Cat(_)
Cat(ss) == IF Len(ss) = 0 THEN << >> ELSE Head(ss) \o Cat(Tail(ss))

RECURSIVE Sum(_)
Sum(s) == IF Len(s) = 0 THEN 0 ELSE Head(s) + Sum(Tail(s))

\* numpy.concatenate(arrays, axis=1)
ConcatAxis1(Ms) == array([i \in 1..Rows(Ms[1]) |-> Cat(array([k \in 1..Len(Ms) |-> Ms[k][i]]))])

\* array.T
Transpose(M) == array([j \in 1..Cols(M) |-> array([i \in 1..Rows(M) |-> M[i][j]])])

\* array[:, bef:aft] (python slice: half-open, 0-based, clipped to the axis)
SliceAxis1(M, bef, aft) == array([i \in 1..Rows(M) |-> SubSeq(M[i], bef + 1, Min(aft, Len(M[i])))])

\* f0[~voiced] = 0
MaskedZero(M, voiced) ==
    array([i \in 1..Rows(M) |-> array([j \in 1..Cols(M) |-> IF ~voiced[i][j] THEN Zero ELSE M[i][j]])])

\* the scalar numpy.nan standing for a whole field
NanField == <<<<NaN>>>>

\* ------------------------------------------------------ results of a call
Ok(v) == [ok |-> TRUE, val |-> v, err |-> ""]
Raised(e) == [ok |-> FALSE, val |-> << >>, err |-> e]

\* --------------------------------------------------------- AcousticFeature
NumericFields == {"f0", "spectrogram", "aperiodicity", "mfcc"}

AcousticFeature(f0, spectrogram, aperiodicity, mfcc, voiced) ==
    [f0 |-> f0, spectrogram |-> spectrogram, aperiodicity |-> aperiodicity,
     mfcc |-> mfcc, voiced |-> voiced]

\* A persisted feature of T frames: f0 is 100 or 120 on the frames in voicing
\* and 0 elsewhere, every other element carries a value of its own.
MakeFeature(base, T, ws, wm, voicing) ==
    LET f0 == array([t \in 1..T |-> <<IF t \in voicing THEN Num(100 + 20 * ((t - 1) % 2)) ELSE Zero>>])
    IN  AcousticFeature(
            f0,
            array([t \in 1..T |-> array([c \in 1..ws |-> Num(base + 200 + 10 * t + c)])]),
            array([t \in 1..T |-> array([c \in 1..ws |-> Num(base + 300 + 10 * t + c)])]),
            array([t \in 1..T |-> array([c \in 1..wm |-> Num(0 - (base + 400 + 10 * t + c))])]),
            array([t \in 1..T |-> <<f0[t][1] # Zero>>]))

\* Precomputed moments, one row per field: k = 1 is the mean / variance pair
\* (50, 25) for f0, k = 2 gives quotients that are not integers.
MakeMean(k, ws, wm) ==
    AcousticFeature(
        <<<<Num(IF k = 1 THEN 50 ELSE 30)>>>>,
        <<array([c \in 1..ws |-> Num(200 + c * k)])>>,
        <<array([c \in 1..ws |-> Num(300 - c * k)])>>,
        <<array([c \in 1..wm |-> Num(0 - 400 + c)])>>,
        NanField)
MakeVar(k, ws, wm) ==
    AcousticFeature(
        <<<<Num(IF k = 1 THEN 25 ELSE 9)>>>>,
        <<array([c \in 1..ws |-> Num((c + k) * (c + k))])>>,
        <<array([c \in 1..ws |-> Num(4 * k * k)])>>,
        <<array([c \in 1..wm |-> Num((c + 1) * (c + 1))])>>,
        NanField)

\* ------------------------------------------------ feature-level transforms
DistillateUsingFeatureProcess(targets, feature) ==
    LET d(t) == IF \E k \in 1..Len(targets) : targets[k] = t THEN feature[t] ELSE NanField
    IN  AcousticFeature(d("f0"), d("spectrogram"), d("aperiodicity"), d("mfcc"), d("voiced"))

MakeMaskProcess(feature) ==
    LET ones_like(M) == array([i \in 1..Rows(M) |-> array([j \in 1..Cols(M) |-> One])])
        astype(M) == array([i \in 1..Rows(M) |-> array([j \in 1..Cols(M) |-> IF M[i][j] THEN One ELSE Zero])])
    IN  AcousticFeature(
            astype(feature.voiced),
            ones_like(feature.spectrogram),
            ones_like(feature.aperiodicity),
            ones_like(feature.mfcc),
            ones_like(feature.voiced))

AcousticFeatureNormalizeProcess(mean, var, data) ==
    LET norm(t) == MatDiv(MatSub(data[t], mean[t]), MatSqrt(var[t]))
    IN  AcousticFeature(
            MaskedZero(norm("f0"), data.voiced),
            norm("spectrogram"),
            norm("aperiodicity"),
            norm("mfcc"),
            data.voiced)

\* the inverse scaling with the square root forgotten
DenormalizeByVariance(mean, var, data) ==
    LET denorm(t) == MatAdd(MatMul(data[t], var[t]), mean[t])
    IN  AcousticFeature(
            MaskedZero(denorm("f0"), data.voiced),
            denorm("spectrogram"),
            denorm("aperiodicity"),
            denorm("mfcc"),
            data.voiced)

AcousticFeatureDenormalizeProcess(mean, var, data) ==
    LET denorm(t) == MatAdd(MatMul(data[t], MatSqrt(var[t])), mean[t])
    IN  AcousticFeature(
            MaskedZero(denorm("f0"), data.voiced),
            denorm("spectrogram"),
            denorm("aperiodicity"),
            denorm("mfcc"),
            data.voiced)

EncodeFeatureProcess(targets, data) ==
    Transpose(ConcatAxis1(array([k \in 1..Len(targets) |-> data[targets[k]]])))

DecodeFeatureProcess(targets, sizes, data) ==
    LET d == Transpose(data)
        lens == array([k \in 1..Len(targets) |-> sizes[targets[k]]])
        bef == <<0>> \o SubSeq(lens, 1, Len(lens) - 1)
        aft == lens
        has(t) == \E k \in 1..Len(targets) : targets[k] = t
        last(t) == CHOOSE k \in 1..Len(targets) :
                       targets[k] = t /\ \A j \in (k + 1)..Len(targets) : targets[j] # t
        get(t) == IF has(t) THEN SliceAxis1(d, bef[last(t)], aft[last(t)]) ELSE NanField
    IN  IF Cols(d) # Sum(lens)
        THEN Raised("AssertionError")
        ELSE Ok(AcousticFeature(get("f0"), get("spectrogram"), get("aperiodicity"),
                                get("mfcc"), get("voiced")))

\* ------------------------------------------------- pseudo-random generators
\* A generator is a state in 0..GenPeriod-1; a draw outputs a function of the
\* state and moves to the next state.  numpy.random.RandomState(seed) builds
\* a generator from a seed, the process-global generator (grng) starts anywhere.
RandomState(seed) == seed % GenPeriod
GenOut(g) == g
GenNext(g) == (g + 1) % GenPeriod
GenSkip(g, k) == (g + k) % GenPeriod
\* random.randint(n): one draw in 0..n-1
randint(g, n) == GenOut(g) % n
\* numpy.random.randint(2 ** 32): the seed space is the generator's output space
randseed(g) == GenOut(g)
\* numpy.random.randn(): one draw from a zero-centred distribution
randn(g) == Num((GenOut(g) % 3) - 1)

\* ------------------------------------------------ tensor-level transforms
Keys == {"input", "target", "mask"}
dict(d) == [input |-> d.input, target |-> d.target, mask |-> d.mask]
TimeLen(data) == Cols(data)
Zeros(n) == array([k \in 1..n |-> Zero])
\* numpy.pad(data, ((0, 0), (pre, post)), mode='constant')
numpy_pad(data, pre, post) == array([r \in 1..Rows(data) |-> Zeros(pre) \o data[r] \o Zeros(post)])
\* numpy.split(data, [a, b], axis=1)[1]
numpy_split1(data, a, b) == SliceAxis1(data, a, b)

\* The in-place form: data is the argument mapping after the call (its three
\* entries are assigned, line 263), ret is the returned value (the same mapping).
ShapeAlignProcess(data) ==
    LET m == Max(Max(TimeLen(data.input), TimeLen(data.target)), TimeLen(data.mask))
        aligned == dict([k \in Keys |-> numpy_pad(data[k], 0, m - TimeLen(data[k]))])
    IN  [data |-> aligned, ret |-> aligned]

\* the leading pad amount (line 282); 0 when the tensor is long enough
PadPre(min_size, datas) ==
    IF TimeLen(datas.data) >= min_size THEN 0
    ELSE randint(RandomState(datas.seed), min_size - TimeLen(datas.data) + 1)

\* the assertion after the size check: a call in test mode would return a
\* tensor that needs no padding
RandomPaddingCheckLate(min_size, datas, test) ==
    IF TimeLen(datas.data) >= min_size THEN Ok(datas.data)
    ELSE IF test THEN Raised("AssertionError")
    ELSE Ok(numpy_pad(datas.data, PadPre(min_size, datas), min_size - PadPre(min_size, datas)))

RandomPaddingProcess(min_size, datas, test) ==
    IF test THEN Raised("AssertionError")
    ELSE IF TimeLen(datas.data) >= min_size THEN Ok(datas.data)
    ELSE LET pre == PadPre(min_size, datas)
             post == min_size - pre
         IN  Ok(numpy_pad(datas.data, pre, post))

LastPaddingProcess(min_size, data) ==
    IF TimeLen(data) >= min_size THEN data
    ELSE numpy_pad(data, min_size - TimeLen(data), 0)

\* the start offset (line 315)
CropStart(crop_size, datas) ==
    randint(RandomState(datas.seed), TimeLen(datas.data) - crop_size + 1)

RandomCropProcess(crop_size, datas, test) ==
    IF test THEN Raised("AssertionError")
    ELSE IF TimeLen(datas.data) < crop_size THEN Raised("AssertionError")
    ELSE LET start == CropStart(crop_size, datas)
         IN  Ok(numpy_split1(datas.data, start, start + crop_size))

FirstCropProcess(crop_size, data) == numpy_split1(data, 0, crop_size)

\* AddNoiseProcess, one numpy.random call at a time: g (line 338), l (line 339),
\* and the sum (line 340).  gen is the global generator's state at the call.
NoiseGlobal(p_global, gen) == RMul(randn(gen), p_global)
NoiseLocal(p_local, data, gen) ==
    array([r \in 1..Rows(data) |->
        array([t \in 1..TimeLen(data) |->
            RMul(randn(GenSkip(gen, (r - 1) * TimeLen(data) + (t - 1))), p_local)])])
NoiseLocalDraws(data) == Rows(data) * TimeLen(data)
NoiseSum(data, g, l) ==
    array([r \in 1..Rows(data) |-> array([t \in 1..TimeLen(data) |-> RAdd(RAdd(data[r][t], g), l[r][t])])])

\* the whole call, by one thread alone, from generator state gen
AddNoiseProcess(p_global, p_local, data, test, gen) ==
    IF test THEN Raised("AssertionError")
    ELSE Ok(NoiseSum(data, NoiseGlobal(p_global, gen), NoiseLocal(p_local, data, GenNext(gen))))
AddNoiseDraws(data) == 1 + NoiseLocalDraws(data)

\* ------------------------------------------------------- pipeline stages
\* AcousticFeatureLoadProcess: the persisted feature at a path
acoustic_feature_load_process(path) == files[path]

\* input branch of the base Split (lines 370-376)
BaseInput(d) ==
    EncodeFeatureProcess(config.features,
        AcousticFeatureNormalizeProcess(moments.input_mean, moments.input_var,
            DistillateUsingFeatureProcess(config.features \o <<"voiced">>,
                acoustic_feature_load_process(d.input_path))))

\* target branch of the base Split (lines 377-389)
BaseTarget(d) ==
    LET f == AcousticFeatureNormalizeProcess(moments.target_mean, moments.target_var,
                 DistillateUsingFeatureProcess(config.features \o <<"voiced">>,
                     acoustic_feature_load_process(d.target_path)))
    IN  [feature |-> EncodeFeatureProcess(config.features, f),
         mask |-> EncodeFeatureProcess(config.features, MakeMaskProcess(f))]

BaseSplit(d) == [input |-> BaseInput(d), target |-> BaseTarget(d)]

\* the Lambda of line 391
Repack(d) == [input |-> d.input, target |-> d.target.feature, mask |-> d.target.mask]

\* add_seed (line 398): dict(seed=numpy.random.randint(2 ** 32), **d), the
\* draw taken from the global generator in state gen
add_seed(d, gen) ==
    [seed |-> randseed(gen), input |-> d.input, target |-> d.target, mask |-> d.mask]

\* a seed of its own for every branch but the first
padding_lambda_own_seed(s, d) ==
    [data |-> d[s], seed |-> IF s = "input" THEN d.seed ELSE d.seed + 1]

\* the Lambda of padding(s) (line 402)
padding_lambda(s, d) == [data |-> d[s], seed |-> d.seed]
padding(s, d, test) == RandomPaddingProcess(config.train_crop_size, padding_lambda(s, d), test)

\* the Lambda of crop(s) (line 408)
crop_lambda(s, d) == [data |-> d[s], seed |-> d.seed]
crop(s, d, test) == RandomCropProcess(config.train_crop_size, crop_lambda(s, d), test)

\* SplitProcess.__call__ over the keys input, target, mask, in that order:
\* the mapping of the branches' results, or the first branch's exception
SplitResult(rs) ==
    IF \A k \in Keys : rs[k].ok THEN Ok(dict([k \in Keys |-> rs[k].val]))
    ELSE IF ~rs["input"].ok THEN rs["input"]
    ELSE IF ~rs["target"].ok THEN rs["target"]
    ELSE rs["mask"]

SplitPadding(d, test) == SplitResult(dict([k \in Keys |-> padding(k, d, test)]))
SplitCrop(d, test) == SplitResult(dict([k \in Keys |-> crop(k, d, test)]))

\* the mask branch left as in the noise stage: the Lambda alone
test_crop_mask_passthrough(s, d) ==
    IF s = "mask" THEN d[s]
    ELSE FirstCropProcess(config.train_crop_size, LastPaddingProcess(config.train_crop_size, d[s]))

\* one branch of the test stage (lines 436-450)
test_crop(s, d) ==
    FirstCropProcess(config.train_crop_size, LastPaddingProcess(config.train_crop_size, d[s]))
SplitTestCrop(d) == dict([k \in Keys |-> test_crop(k, d)])

\* the noise scales of a branch of the noise stage (lines 423, 427)
NoiseScale(s) ==
    IF s = "input"
    THEN [g |-> config.input_global_noise, l |-> config.input_local_noise]
    ELSE [g |-> config.target_global_noise, l |-> config.target_local_noise]

\* ---------------------------------------------------------------- create()
BaseStages == <<"base_split", "repack", "shape_align">>
AugmentStages == <<"add_seed", "split_padding", "add_seed", "split_crop">>

\* ChainProcess(process): a new object holding list(process)
ChainProcess(chs, id, process) == (id :> process) @@ chs

\* train and base left as one object
deepcopy_alias(chs, src, new) == [chains |-> chs, ref |-> src]

\* copy.deepcopy of a chain whose stages are leaf transforms
deepcopy(chs, src, new) == [chains |-> (new :> chs[src]) @@ chs, ref |-> new]

\* ChainProcess.append
append(chs, id, process) == [chs EXCEPT ![id] = Append(@, process)]

\* sorted(glob.glob(...)): the paths of one kind, in order
Glob(kind) == array([k \in 1..Cardinality({q \in DOMAIN files : q[1] = kind}) |-> <<kind, k>>])

Swap(x, i, j) == [x EXCEPT ![i] = x[j], ![j] = x[i]]
\* RandomState.shuffle: for i from the last position down, swap with a drawn j <= i
RECURSIVE shuffle(_, _, _)
shuffle(x, i, g) ==
    IF i < 2 THEN x ELSE shuffle(Swap(x, i, randint(g, i) + 1), i - 1, GenNext(g))

\* the shuffle drawn from the process-global generator
shuffle_pairs_global(seed, pairs) == shuffle(pairs, Len(pairs), grng)

\* numpy.random.RandomState(config.seed).shuffle(pairs) (line 458)
shuffle_pairs(seed, pairs) == shuffle(pairs, Len(pairs), RandomState(seed))

\* x[k:] and x[:k] for k >= 0
PyFrom(x, k) == SubSeq(x, Min(k, Len(x)) + 1, Len(x))
PyTo(x, k) == SubSeq(x, 1, Min(k, Len(x)))

DataProcessDataset(data, data_process) == [data |-> data, data_process |-> data_process]

\* the path pairs of lines 454-457
ZipPairs(input_paths, target_paths) ==
    array([k \in 1..Min(Len(input_paths), Len(target_paths)) |->
        [input_path |-> input_paths[k], target_path |-> target_paths[k]]])

\* the precomputed moments loaded at lines 362-365
LoadMoments ==
    [input_mean |-> MakeMean(1, 1, 1), input_var |-> MakeVar(1, 1, 1),
     target_mean |-> MakeMean(2, 1, 1), target_var |-> MakeVar(2, 1, 1)]

\* create(), run to its return statement under configuration cfg
Created(cfg) ==
    LET c1 == ChainProcess(<< >>, "chain1", BaseStages)
        cp == deepcopy(c1, "chain1", "chain2")
        c2 == ChainProcess(cp.chains, "chain3", AugmentStages)
        c3 == append(c2, cp.ref, "chain3")
        c4 == append(c3, cp.ref, "split_noise")
        c5 == append(c4, "chain1", "split_test_crop")
        pairs == shuffle_pairs(cfg.seed, ZipPairs(Glob("input"), Glob("target")))
        train_paths == PyFrom(pairs, cfg.num_test)
        test_paths == PyTo(pairs, cfg.num_test)
        train_for_evaluate_paths == PyTo(train_paths, cfg.num_test)
    IN  [chains |-> c5,
         datasets |-> [train |-> DataProcessDataset(train_paths, cp.ref),
                       test |-> DataProcessDataset(test_paths, "chain1"),
                       train_eval |-> DataProcessDataset(train_for_evaluate_paths, "chain1")]]

\* The persisted features: n input and n target files, of li and lt frames.
FileSystem(n, li, lt) ==
    [q \in {"input", "target"} \X (1..n) |->
        IF q[1] = "input"
        THEN MakeFeature(q[2], li, 1, 1, {t \in 1..li : t % 2 = 1})
        ELSE MakeFeature(50 + q[2], lt, 1, 1, {t \in 1..lt : t % 2 = 1})]

MakeConfig(features, train_crop_size, num_test, seed) ==
    [features |-> features, train_crop_size |-> train_crop_size,
     input_global_noise |-> Rat(1, 100), input_local_noise |-> Rat(1, 100),
     target_global_noise |-> Rat(1, 2), target_local_noise |-> Rat(3, 4),
     num_test |-> num_test, seed |-> seed]

\* ------------------------------------------- feature-level calls (SpecCodec)
\* Ordered target lists: one or more distinct numeric fields, in any order.
TargetLists ==
    {s \in UNION {[1..n -> NumericFields] : n \in 1..Cardinality(NumericFields)} :
        \A i, j \in DOMAIN s : i # j => s[i] # s[j]}
Range(s) == {s[k] : k \in DOMAIN s}

\* the width mapping that gives every field its true width
TrueSizes(feature) == [t \in NumericFields |-> Cols(feature[t])]

CodecIdle ==
    [op |-> "none", feature |-> << >>, targets |-> << >>, sizes |-> << >>,
     mean |-> << >>, var |-> << >>, arg |-> << >>, ret |-> << >>]

otherThanCodec == <<grng, config, files, moments, chains, datasets, call, hist,
                    direct, cpc, locals, memo>>

\* A feature and a target list are given to the encoder / decoder pair.
LoadForCodec ==
    \E T \in 1..MaxLen, ws \in 1..MaxWidth, wm \in 1..MaxWidth, targets \in TargetLists :
        LET feature == MakeFeature(0, T, ws, wm, 1..T \ {2})
        IN  /\ codec.op = "none"
            /\ codec' = [CodecIdle EXCEPT !.op = "loaded", !.feature = feature,
                                          !.targets = targets, !.sizes = TrueSizes(feature)]
            /\ UNCHANGED otherThanCodec

\* A feature and a mean / variance pair are given to the normalizer pair.
LoadForNormalize ==
    \E T \in 1..MaxLen, ws \in 1..MaxWidth, wm \in 1..MaxWidth,
       voicing \in SUBSET (1..MaxLen), k \in 1..2 :
        /\ codec.op = "none"
        /\ voicing \subseteq 1..T
        /\ codec' = [CodecIdle EXCEPT !.op = "moments",
                                      !.feature = MakeFeature(0, T, ws, wm, voicing),
                                      !.mean = MakeMean(k, ws, wm), !.var = MakeVar(k, ws, wm)]
        /\ UNCHANGED otherThanCodec

CallEncode ==
    /\ codec.op = "loaded"
    /\ codec' = [codec EXCEPT !.op = "encoded", !.arg = codec.feature,
                              !.ret = Ok(EncodeFeatureProcess(codec.targets, codec.feature))]
    /\ UNCHANGED otherThanCodec

CallDecode ==
    /\ codec.op = "encoded"
    /\ codec' = [codec EXCEPT !.op = "decoded", !.arg = codec.ret.val,
                              !.ret = DecodeFeatureProcess(codec.targets, codec.sizes, codec.ret.val)]
    /\ UNCHANGED otherThanCodec

CallNormalize ==
    /\ codec.op = "moments"
    /\ codec' = [codec EXCEPT !.op = "normalized", !.arg = codec.feature,
                              !.ret = Ok(AcousticFeatureNormalizeProcess(codec.mean, codec.var, codec.feature))]
    /\ UNCHANGED otherThanCodec

CallDenormalize ==
    /\ codec.op = "normalized"
    /\ codec' = [codec EXCEPT !.op = "denormalized", !.arg = codec.ret.val,
                              !.ret = Ok(AcousticFeatureDenormalizeProcess(codec.mean, codec.var, codec.ret.val))]
    /\ UNCHANGED otherThanCodec

\* the caller drops the result
CodecReturn ==
    /\ codec.op \in {"decoded", "denormalized"}
    /\ codec' = CodecIdle
    /\ UNCHANGED otherThanCodec

\* ------------------------------------------------------------- SpecCodec
NoMemo == [calls |-> 0, config |-> << >>, datasets |-> << >>]

\* Before create() has run: no configuration, no pipeline, no dataset.
Unbuilt ==
    /\ config = << >>
    /\ files = << >>
    /\ moments = << >>
    /\ chains = << >>
    /\ datasets = << >>
    /\ call = << >>
    /\ hist = << >>
    /\ cpc = "none"
    /\ locals = << >>
    /\ memo = NoMemo

DirectIdle == [op |-> "none", arg0 |-> << >>, arg |-> << >>, test |-> FALSE, ret |-> << >>]

InitCodec ==
    /\ Unbuilt
    /\ grng = 0
    /\ direct = DirectIdle
    /\ codec = CodecIdle

NextCodec ==
    \/ LoadForCodec
    \/ LoadForNormalize
    \/ CallEncode
    \/ CallDecode
    \/ CallNormalize
    \/ CallDenormalize
    \/ CodecReturn

SpecCodec == InitCodec /\ [][NextCodec]_vars

\* C2: decoding what was encoded with the same target list and the true widths
\* gives back every selected field, and not-a-number for every other field.
C2_DecodeInvertsEncode ==
    codec.op = "decoded" =>
        /\ codec.ret.ok
        /\ \A t \in NumericFields \cup {"voiced"} :
              codec.ret.val[t] = IF t \in Range(codec.targets) THEN codec.feature[t] ELSE NanField

\* C6: denormalize after normalize gives back f0 on voiced frames and the other
\* numeric fields everywhere; unvoiced f0 is zero after either; voiced passes.
C6_DenormalizeInvertsNormalize ==
    /\ codec.op = "normalized" =>
          /\ codec.ret.val.voiced = codec.feature.voiced
          /\ \A t \in 1..Rows(codec.feature.f0) :
                ~codec.feature.voiced[t][1] => codec.ret.val.f0[t][1] = Zero
    /\ codec.op = "denormalized" =>
          /\ codec.ret.val.voiced = codec.feature.voiced
          /\ codec.ret.val.spectrogram = codec.feature.spectrogram
          /\ codec.ret.val.aperiodicity = codec.feature.aperiodicity
          /\ codec.ret.val.mfcc = codec.feature.mfcc
          /\ \A t \in 1..Rows(codec.feature.f0) :
                IF codec.feature.voiced[t][1]
                THEN codec.ret.val.f0[t] = codec.feature.f0[t]
                ELSE codec.ret.val.f0[t][1] = Zero /\ codec.arg.f0[t][1] = Zero

\* f0 = [100, 0, 100] with mean 50 and variance 25 normalizes to [10, 0, 10],
\* and has been denormalized.
C6_Witness ==
    /\ codec.op = "denormalized"
    /\ codec.feature.f0 = <<<<Num(100)>>, <<Zero>>, <<Num(100)>>>>
    /\ codec.arg.f0 = <<<<Num(10)>>, <<Zero>>, <<Num(10)>>>>
    /\ Cols(codec.feature.mfcc) > 1

\* not a claim: with a single target the decoder does invert the encoder
SingleTargetRoundTrip ==
    (codec.op = "decoded" /\ Len(codec.targets) = 1) =>
        /\ codec.ret.ok
        /\ \A t \in Range(codec.targets) : codec.ret.val[t] = codec.feature[t]

\* ------------------------------------------------------------- SpecCreate
\* create() one statement group at a time.  A second call is made with the
\* configuration of the first; memo keeps what the first call returned.
NoLocals ==
    [input_paths |-> << >>, target_paths |-> << >>,
     data_process_base |-> "", data_process_train |-> "", data_process_test |-> "",
     pairs |-> << >>, train_paths |-> << >>, test_paths |-> << >>,
     train_for_evaluate_paths |-> << >>]

pipeIdleVars == <<call, hist, direct, codec>>

InitCreate ==
    /\ \E n \in 0..MaxPairs : files = FileSystem(n, 1, 1)
    /\ grng \in 0..(GenPeriod - 1)
    /\ config = << >>
    /\ moments = << >>
    /\ chains = << >>
    /\ datasets = << >>
    /\ call = << >>
    /\ hist = << >>
    /\ direct = DirectIdle
    /\ codec = CodecIdle
    /\ cpc = "none"
    /\ locals = NoLocals
    /\ memo = NoMemo

\* lines 355-365: the call, the two globs, the moments
CreateCall ==
    \E num_test \in 0..Len(Glob("input")), seed \in 0..(GenPeriod - 1) :
        LET cfg == MakeConfig(<<"f0">>, 1, num_test, seed)
        IN  /\ cpc \in {"none", "done"}
            /\ memo.calls > 0 => cfg = memo.config
            /\ config' = cfg
            /\ moments' = LoadMoments
            /\ chains' = << >>
            /\ datasets' = << >>
            /\ locals' = [NoLocals EXCEPT !.input_paths = Glob("input"),
                                          !.target_paths = Glob("target")]
            /\ cpc' = "base"
            /\ UNCHANGED <<grng, files, memo, pipeIdleVars>>

\* lines 368-393
BuildBase ==
    /\ cpc = "base"
    /\ chains' = ChainProcess(chains, "chain1", BaseStages)
    /\ locals' = [locals EXCEPT !.data_process_base = "chain1"]
    /\ cpc' = "copy"
    /\ UNCHANGED <<grng, config, files, moments, datasets, memo, pipeIdleVars>>

\* line 395
DeepCopyBase ==
    /\ cpc = "copy"
    /\ LET r == deepcopy(chains, locals.data_process_base, "chain2")
       IN  /\ chains' = r.chains
           /\ locals' = [locals EXCEPT !.data_process_train = r.ref]
    /\ cpc' = "augment"
    /\ UNCHANGED <<grng, config, files, moments, datasets, memo, pipeIdleVars>>

\* lines 412-417
AppendAugment ==
    /\ cpc = "augment"
    /\ chains' = append(ChainProcess(chains, "chain3", AugmentStages),
                        locals.data_process_train, "chain3")
    /\ cpc' = "noise"
    /\ UNCHANGED <<grng, config, files, moments, datasets, locals, memo, pipeIdleVars>>

\* lines 420-432
AppendNoise ==
    /\ cpc = "noise"
    /\ chains' = append(chains, locals.data_process_train, "split_noise")
    /\ cpc' = "test"
    /\ UNCHANGED <<grng, config, files, moments, datasets, locals, memo, pipeIdleVars>>

\* lines 434-451
AppendTest ==
    /\ cpc = "test"
    /\ locals' = [locals EXCEPT !.data_process_test = locals.data_process_base]
    /\ chains' = append(chains, locals.data_process_base, "split_test_crop")
    /\ cpc' = "split"
    /\ UNCHANGED <<grng, config, files, moments, datasets, memo, pipeIdleVars>>

\* lines 453-461
ShuffleSplit ==
    /\ cpc = "split"
    /\ LET pairs == shuffle_pairs(config.seed, ZipPairs(locals.input_paths, locals.target_paths))
           train_paths == PyFrom(pairs, config.num_test)
       IN  locals' = [locals EXCEPT !.pairs = pairs,
                                    !.train_paths = train_paths,
                                    !.test_paths = PyTo(pairs, config.num_test),
                                    !.train_for_evaluate_paths = PyTo(train_paths, config.num_test)]
    /\ cpc' = "return"
    /\ UNCHANGED <<grng, config, files, moments, chains, datasets, memo, pipeIdleVars>>

\* lines 463-467
CreateReturn ==
    /\ cpc = "return"
    /\ datasets' =
          [train |-> DataProcessDataset(locals.train_paths, locals.data_process_train),
           test |-> DataProcessDataset(locals.test_paths, locals.data_process_test),
           train_eval |-> DataProcessDataset(locals.train_for_evaluate_paths,
                                             locals.data_process_test)]
    /\ memo' = IF memo.calls = 0
               THEN [calls |-> 1, config |-> config, datasets |-> datasets']
               ELSE [memo EXCEPT !.calls = 2]
    /\ cpc' = "done"
    /\ UNCHANGED <<grng, config, files, moments, chains, locals, pipeIdleVars>>

\* between two calls of create() the process draws from the global generator
\* (line 398, line 338)
GlobalDraw ==
    /\ cpc = "done"
    /\ grng' = GenNext(grng)
    /\ UNCHANGED <<config, files, moments, chains, datasets, locals, memo, cpc, pipeIdleVars>>

NextCreate ==
    \/ CreateCall
    \/ BuildBase
    \/ DeepCopyBase
    \/ AppendAugment
    \/ AppendNoise
    \/ AppendTest
    \/ ShuffleSplit
    \/ CreateReturn
    \/ GlobalDraw

SpecCreate == InitCreate /\ [][NextCreate]_vars

AllPairs == Range(ZipPairs(Glob("input"), Glob("target")))

\* C7 as stated: train and test partition the pairs, test has num_test pairs,
\* train_eval is exactly the first num_test pairs of train, and a second call
\* with the same configuration returns the same three sets.
C7_SplitAsStated ==
    cpc = "done" =>
        LET train == datasets.train.data
            test == datasets.test.data
            train_eval == datasets.train_eval.data
        IN  /\ Range(train) \cap Range(test) = {}
            /\ Range(train) \cup Range(test) = AllPairs
            /\ Len(train) + Len(test) = Cardinality(AllPairs)
            /\ Len(test) = config.num_test
            /\ Len(train_eval) = config.num_test
            /\ \A k \in 1..config.num_test : train_eval[k] = train[k]
            /\ Range(train_eval) \cap Range(test) = {}
            /\ datasets = memo.datasets

\* C7 amended: as stated, but train_eval is the first min(num_test, N - num_test)
\* pairs of train, which are num_test pairs only when 2 * num_test <= N.
C7_Split ==
    cpc = "done" =>
        LET train == datasets.train.data
            test == datasets.test.data
            train_eval == datasets.train_eval.data
            N == Cardinality(AllPairs)
        IN  /\ Range(train) \cap Range(test) = {}
            /\ Range(train) \cup Range(test) = AllPairs
            /\ Len(train) + Len(test) = N
            /\ Len(test) = config.num_test
            /\ Len(train_eval) = Min(config.num_test, N - config.num_test)
            /\ \A k \in 1..Len(train_eval) : train_eval[k] = train[k]
            /\ Range(train_eval) \cap Range(test) = {}
            /\ datasets = memo.datasets

\* a second call has returned, with more test pairs than train pairs, after
\* the global generator moved on
C7_Witness ==
    /\ cpc = "done"
    /\ memo.calls = 2
    /\ Cardinality(AllPairs) = 3
    /\ config.num_test = 2
    /\ Len(datasets.train_eval.data) = 1
    /\ datasets.test.data # PyTo(ZipPairs(Glob("input"), Glob("target")), 2)

\* C10: after the copy and the appends the train chain is base, augment, noise,
\* the test chain is base, last-pad/first-crop, they are two objects, and test
\* and train_eval both run the test chain.
C10_PipelinesSeparate ==
    cpc \in {"split", "return", "done"} =>
        LET train == locals.data_process_train
            test == locals.data_process_test
        IN  /\ train # test
            /\ Len(chains[train]) = Len(BaseStages) + 2
            /\ SubSeq(chains[train], 1, Len(BaseStages)) = BaseStages
            /\ chains[train][Len(BaseStages) + 1] \in DOMAIN chains
            /\ chains[chains[train][Len(BaseStages) + 1]] = AugmentStages
            /\ chains[train][Len(BaseStages) + 2] = "split_noise"
            /\ chains[test] = BaseStages \o <<"split_test_crop">>
            /\ cpc = "done" =>
                  /\ datasets.train.data_process = train
                  /\ datasets.test.data_process = test
                  /\ datasets.train_eval.data_process = test

C10_Witness ==
    /\ cpc = "done"
    /\ Len(datasets.train.data) > 0
    /\ Len(datasets.test.data) > 0
    /\ Len(chains[datasets.test.data_process]) = Len(BaseStages) + 1

\* SpecCreate's statement groups arrive where the composed Created does
CreatedAgrees ==
    cpc = "done" => chains = Created(config).chains /\ datasets = Created(config).datasets

\* ------------------------------------------------- get_example, by stages
Threads == {1, 2}

CallIdle ==
    [pc |-> "idle", ds |-> "", i |-> 0, test |-> FALSE, stack |-> << >>,
     work |-> << >>, err |-> "", noise |-> "", g |-> Zero, out |-> << >>]

HistIdle ==
    [at |-> "start", pair |-> << >>, aligned |-> << >>, pad |-> << >>, padded |-> << >>,
     crop |-> << >>, cropped |-> << >>, seeds |-> << >>, noise_gen |-> << >>]

built == <<config, files, moments, chains, datasets, codec, cpc, locals, memo>>

\* ChainProcess.__call__: the frame on top of the stack is the chain being
\* run, pos the index of its next stage
Top(w) == call[w].stack[Len(call[w].stack)]
AtEnd(w) == Top(w).pos > Len(chains[Top(w).chain])
Cur(w) == chains[Top(w).chain][Top(w).pos]
Running(w, stage) == call[w].pc = "running" /\ ~AtEnd(w) /\ Cur(w) = stage

\* data = p(data, test): the stage returned work
Advance(c, work) ==
    [c EXCEPT !.work = work, !.stack[Len(c.stack)].pos = @ + 1]
\* the stage raised: nothing catches it, the exception leaves get_example
Propagate(c, err) ==
    [c EXCEPT !.pc = "error", !.stack = << >>, !.work = << >>, !.err = err]

\* DataProcessDataset.get_example(i), test = not chainer.config.train (line 352)
GetExample(w, ds, i, test) ==
    /\ call[w].pc = "idle"
    /\ i \in 1..Len(datasets[ds].data)
    /\ call' = [call EXCEPT ![w] =
                   [CallIdle EXCEPT !.pc = "running", !.ds = ds, !.i = i, !.test = test,
                                    !.stack = <<[chain |-> datasets[ds].data_process, pos |-> 1]>>,
                                    !.work = datasets[ds].data[i]]]
    /\ hist' = [hist EXCEPT ![w] = [HistIdle EXCEPT !.pair = datasets[ds].data[i]]]
    /\ direct' = DirectIdle
    /\ UNCHANGED <<grng, built>>

\* a stage that is itself a ChainProcess (line 412) is called
EnterChain(w) ==
    /\ call[w].pc = "running"
    /\ ~AtEnd(w)
    /\ Cur(w) \in DOMAIN chains
    /\ call' = [call EXCEPT ![w].stack = Append(@, [chain |-> Cur(w), pos |-> 1])]
    /\ UNCHANGED <<grng, hist, direct, built>>

\* ChainProcess.__call__ returns data (line 50)
ChainReturn(w) ==
    /\ call[w].pc = "running"
    /\ AtEnd(w)
    /\ call' = [call EXCEPT ![w] =
                   IF Len(@.stack) = 1
                   THEN [@ EXCEPT !.pc = "done", !.stack = << >>]
                   ELSE [@ EXCEPT !.stack = [SubSeq(@, 1, Len(@) - 1)
                                               EXCEPT ![Len(@) - 1].pos = @ + 1]]]
    /\ UNCHANGED <<grng, hist, direct, built>>

StageBaseSplit(w) ==
    /\ Running(w, "base_split")
    /\ call' = [call EXCEPT ![w] = Advance(@, BaseSplit(@.work))]
    /\ UNCHANGED <<grng, hist, direct, built>>

StageRepack(w) ==
    /\ Running(w, "repack")
    /\ call' = [call EXCEPT ![w] = Advance(@, Repack(@.work))]
    /\ UNCHANGED <<grng, hist, direct, built>>

StageShapeAlign(w) ==
    /\ Running(w, "shape_align")
    /\ call' = [call EXCEPT ![w] = Advance(@, ShapeAlignProcess(@.work).ret)]
    /\ hist' = [hist EXCEPT ![w].at = "aligned",
                            ![w].aligned = ShapeAlignProcess(call[w].work).ret]
    /\ UNCHANGED <<grng, direct, built>>

\* add_seed draws from the process-global generator
StageAddSeed(w) ==
    /\ Running(w, "add_seed")
    /\ call' = [call EXCEPT ![w] = Advance(@, add_seed(@.work, grng))]
    /\ grng' = GenNext(grng)
    /\ hist' = [hist EXCEPT ![w].seeds = Append(@, randseed(grng))]
    /\ UNCHANGED <<direct, built>>

StageSplitPadding(w) ==
    /\ Running(w, "split_padding")
    /\ LET r == SplitPadding(call[w].work, call[w].test)
       IN  IF r.ok
           THEN /\ call' = [call EXCEPT ![w] = Advance(@, r.val)]
                /\ hist' = [hist EXCEPT ![w].at = "padded",
                                        ![w].pad = dict([k \in Keys |-> padding_lambda(k, call[w].work)]),
                                        ![w].padded = r.val]
           ELSE /\ call' = [call EXCEPT ![w] = Propagate(@, r.err)]
                /\ UNCHANGED hist
    /\ UNCHANGED <<grng, direct, built>>

StageSplitCrop(w) ==
    /\ Running(w, "split_crop")
    /\ LET r == SplitCrop(call[w].work, call[w].test)
       IN  IF r.ok
           THEN /\ call' = [call EXCEPT ![w] = Advance(@, r.val)]
                /\ hist' = [hist EXCEPT ![w].at = "cropped",
                                        ![w].crop = dict([k \in Keys |-> crop_lambda(k, call[w].work)]),
                                        ![w].cropped = r.val]
           ELSE /\ call' = [call EXCEPT ![w] = Propagate(@, r.err)]
                /\ UNCHANGED hist
    /\ UNCHANGED <<grng, direct, built>>

\* the noise stage, one numpy.random call at a time: the input branch's g and
\* l, then the target branch's; the mask branch is a Lambda alone
NoiseBranch(c) == IF c.noise \in {"", "input_l"} THEN "input" ELSE "target"

StageNoiseGlobal(w) ==
    /\ Running(w, "split_noise")
    /\ call[w].noise \in {"", "target_g"}
    /\ IF call[w].test
       THEN /\ call' = [call EXCEPT ![w] = Propagate(@, "AssertionError")]
            /\ UNCHANGED <<grng, hist>>
       ELSE /\ call' = [call EXCEPT
                           ![w].g = NoiseGlobal(NoiseScale(NoiseBranch(call[w])).g, grng),
                           ![w].noise = IF @ = "" THEN "input_l" ELSE "target_l"]
            /\ grng' = GenNext(grng)
            /\ hist' = [hist EXCEPT ![w].noise_gen = Append(@, grng)]
    /\ UNCHANGED <<direct, built>>

StageNoiseLocal(w) ==
    /\ Running(w, "split_noise")
    /\ call[w].noise \in {"input_l", "target_l"}
    /\ LET s == NoiseBranch(call[w])
           data == call[w].work[s]
           noisy == NoiseSum(data, call[w].g, NoiseLocal(NoiseScale(s).l, data, grng))
       IN  /\ call' = [call EXCEPT ![w] =
                          IF s = "input"
                          THEN [@ EXCEPT !.noise = "target_g", !.out = noisy]
                          ELSE [Advance(@, [input |-> @.out, target |-> noisy,
                                            mask |-> @.work.mask])
                                  EXCEPT !.noise = "", !.out = << >>, !.g = Zero]]
           /\ grng' = GenSkip(grng, NoiseLocalDraws(data))
    /\ hist' = [hist EXCEPT ![w].noise_gen = Append(@, grng)]
    /\ UNCHANGED <<direct, built>>

StageSplitTestCrop(w) ==
    /\ Running(w, "split_test_crop")
    /\ call' = [call EXCEPT ![w] = Advance(@, SplitTestCrop(@.work))]
    /\ UNCHANGED <<grng, hist, direct, built>>

\* the caller has the example, or the exception
ReturnExample(w) ==
    /\ call[w].pc \in {"done", "error"}
    /\ call' = [call EXCEPT ![w] = CallIdle]
    /\ hist' = [hist EXCEPT ![w] = HistIdle]
    /\ UNCHANGED <<grng, direct, built>>

\* ------------------------------------------- direct calls of one transform
AllIdle == \A w \in Threads : call[w].pc = "idle"

\* the tensors of the first train pair, as the base stages hand them on
Sample == Repack(BaseSplit(datasets.train.data[1]))

DirectShapeAlign ==
    /\ AllIdle /\ direct.op = "none"
    /\ \E test \in BOOLEAN :
          direct' = [op |-> "shape_align", arg0 |-> Sample, test |-> test,
                     arg |-> ShapeAlignProcess(Sample).data,
                     ret |-> Ok(ShapeAlignProcess(Sample).ret)]
    /\ UNCHANGED <<grng, call, hist, built>>

DirectRandomPadding ==
    /\ AllIdle /\ direct.op = "none"
    /\ \E s \in {"input", "target"}, seed \in 0..(GenPeriod - 1), test \in BOOLEAN :
          LET datas == [data |-> Sample[s], seed |-> seed]
          IN  direct' = [op |-> "random_padding", arg0 |-> datas, test |-> test, arg |-> datas,
                         ret |-> RandomPaddingProcess(config.train_crop_size, datas, test)]
    /\ UNCHANGED <<grng, call, hist, built>>

DirectLastPadding ==
    /\ AllIdle /\ direct.op = "none"
    /\ \E s \in {"input", "target"}, test \in BOOLEAN :
          direct' = [op |-> "last_padding", arg0 |-> Sample[s], test |-> test, arg |-> Sample[s],
                     ret |-> Ok(LastPaddingProcess(config.train_crop_size, Sample[s]))]
    /\ UNCHANGED <<grng, call, hist, built>>

DirectRandomCrop ==
    /\ AllIdle /\ direct.op = "none"
    /\ \E s \in {"input", "target"}, seed \in 0..(GenPeriod - 1), test \in BOOLEAN :
          LET datas == [data |-> Sample[s], seed |-> seed]
          IN  direct' = [op |-> "random_crop", arg0 |-> datas, test |-> test, arg |-> datas,
                         ret |-> RandomCropProcess(config.train_crop_size, datas, test)]
    /\ UNCHANGED <<grng, call, hist, built>>

DirectFirstCrop ==
    /\ AllIdle /\ direct.op = "none"
    /\ \E s \in {"input", "target"}, test \in BOOLEAN :
          direct' = [op |-> "first_crop", arg0 |-> Sample[s], test |-> test, arg |-> Sample[s],
                     ret |-> Ok(FirstCropProcess(config.train_crop_size, Sample[s]))]
    /\ UNCHANGED <<grng, call, hist, built>>

DirectAddNoise ==
    /\ AllIdle /\ direct.op = "none"
    /\ \E s \in {"input", "target"}, test \in BOOLEAN :
          /\ direct' = [op |-> "add_noise", arg0 |-> Sample[s], test |-> test, arg |-> Sample[s],
                        ret |-> AddNoiseProcess(NoiseScale(s).g, NoiseScale(s).l,
                                                Sample[s], test, grng)]
          /\ grng' = IF test THEN grng ELSE GenSkip(grng, AddNoiseDraws(Sample[s]))
    /\ UNCHANGED <<call, hist, built>>

DirectReturn ==
    /\ direct.op # "none"
    /\ direct' = DirectIdle
    /\ UNCHANGED <<grng, call, hist, built>>

\* ------------------------------------------------------------------ Spec
\* create() has returned: three path pairs, one of them held out.
PipelineFeatureLists == {<<"f0">>, <<"mfcc", "f0">>}

Pipeline(li, lt, crop_size, features) ==
    /\ files = FileSystem(3, li, lt)
    /\ config = MakeConfig(features, crop_size, 1, 0)
    /\ moments = LoadMoments
    /\ chains = Created(config).chains
    /\ datasets = Created(config).datasets
    /\ call = [w \in Threads |-> CallIdle]
    /\ hist = [w \in Threads |-> HistIdle]
    /\ direct = DirectIdle
    /\ codec = CodecIdle
    /\ cpc = "done"
    /\ locals = NoLocals
    /\ memo = NoMemo

Init ==
    /\ grng \in 0..(GenPeriod - 1)
    /\ \E li \in 1..MaxLen, lt \in 1..MaxLen, crop_size \in 1..MaxCrop,
          features \in PipelineFeatureLists : Pipeline(li, lt, crop_size, features)

Stage(w) ==
    \/ EnterChain(w)
    \/ ChainReturn(w)
    \/ StageBaseSplit(w)
    \/ StageRepack(w)
    \/ StageShapeAlign(w)
    \/ StageAddSeed(w)
    \/ StageSplitPadding(w)
    \/ StageSplitCrop(w)
    \/ StageNoiseGlobal(w)
    \/ StageNoiseLocal(w)

\* one thread: examples are materialized one after another
Next ==
    \/ \E ds \in DOMAIN datasets, i \in 1..MaxPairs, test \in BOOLEAN : GetExample(1, ds, i, test)
    \/ Stage(1)
    \/ StageSplitTestCrop(1)
    \/ ReturnExample(1)
    \/ DirectShapeAlign
    \/ DirectRandomPadding
    \/ DirectLastPadding
    \/ DirectRandomCrop
    \/ DirectFirstCrop
    \/ DirectAddNoise
    \/ DirectReturn

Spec == Init /\ [][Next]_vars

\* the f0 length, in frames, of the two persisted features of a path pair
InputLen(pair) == Rows(acoustic_feature_load_process(pair.input_path).f0)
TargetLen(pair) == Rows(acoustic_feature_load_process(pair.target_path).f0)

\* C1: an example the train pipeline returns in train mode, and an example the
\* test pipeline returns (test and train_eval datasets), has exactly the keys
\* input, target and mask, the three of one time length; neither raises.
C1_EqualTimeLength ==
    \A w \in Threads :
        /\ call[w].pc = "done" =>
              /\ DOMAIN call[w].work = Keys
              /\ TimeLen(call[w].work.input) = TimeLen(call[w].work.target)
              /\ TimeLen(call[w].work.target) = TimeLen(call[w].work.mask)
        /\ call[w].pc = "error" => (call[w].ds = "train" /\ call[w].test)

\* the test pipeline returned an example of a pair whose input is shorter than
\* the crop size and whose target is longer
C1_Witness ==
    /\ call[1].pc = "done"
    /\ call[1].ds = "test"
    /\ InputLen(hist[1].pair) < config.train_crop_size
    /\ TargetLen(hist[1].pair) > config.train_crop_size
    /\ TimeLen(call[1].work.mask) = config.train_crop_size

\* C3: RandomPaddingProcess in train mode returns a tensor of at least M frames
\* unchanged, and pads a shorter one to exactly M frames: p leading zero frames,
\* the L frames, M - L - p trailing zero frames, p the seeded draw in 0..M-L.
C3_PaddedToMinimum ==
    (direct.op = "random_padding" /\ ~direct.test) =>
        LET data == direct.arg0.data
            M == config.train_crop_size
            L == TimeLen(data)
            p == PadPre(M, direct.arg0)
        IN  /\ direct.ret.ok
            /\ IF L >= M
               THEN direct.ret.val = data
               ELSE /\ p \in 0..(M - L)
                    /\ TimeLen(direct.ret.val) = M
                    /\ direct.ret.val = numpy_pad(data, p, M - L - p)

\* C4: in one example of the train pipeline the three branches of the padding
\* stage are handed one seed and the three branches of the crop stage one seed;
\* the leading pad and the crop start are the same for input, target and mask,
\* and frame t of every output comes from the same source frame.
C4_BranchesAligned ==
    \A w \in Threads :
        LET M == config.train_crop_size
            h == hist[w]
        IN  /\ h.at \in {"padded", "cropped"} =>
                  LET p == PadPre(M, h.pad.input)
                  IN  \A k \in Keys :
                          /\ h.pad[k].seed = h.pad.input.seed
                          /\ h.pad[k].data = h.aligned[k]
                          /\ PadPre(M, h.pad[k]) = p
                          /\ TimeLen(h.padded[k]) = TimeLen(h.padded.input)
                          /\ \A r \in 1..Rows(h.padded[k]), t \in 1..TimeLen(h.padded[k]) :
                                h.padded[k][r][t] =
                                    IF t - p \in 1..TimeLen(h.aligned[k])
                                    THEN h.aligned[k][r][t - p] ELSE Zero
            /\ h.at = "cropped" =>
                  LET s == CropStart(M, h.crop.input)
                  IN  \A k \in Keys :
                          /\ h.crop[k].seed = h.crop.input.seed
                          /\ h.crop[k].data = h.padded[k]
                          /\ CropStart(M, h.crop[k]) = s
                          /\ TimeLen(h.cropped[k]) = M
                          /\ \A r \in 1..Rows(h.cropped[k]), t \in 1..M :
                                h.cropped[k][r][t] = h.padded[k][r][t + s]

\* an example was padded in front and then cropped, its input and target
\* features of two rows each
C4_Witness ==
    /\ hist[1].at = "cropped"
    /\ PadPre(config.train_crop_size, hist[1].pad.input) > 0
    /\ Rows(hist[1].cropped.mask) = 2
    /\ hist[1].pad.input.seed # hist[1].crop.input.seed

\* C5: a stochastic transform called with test = true raises an assertion error
\* and returns nothing, whatever the tensor; the error leaves every enclosing
\* Chain and Split, so an example of the train dataset read in test mode is
\* never returned.
C5_StochasticRaisesInTest ==
    /\ (direct.op \in {"random_padding", "random_crop", "add_noise"} /\ direct.test) =>
          /\ ~direct.ret.ok
          /\ direct.ret.err = "AssertionError"
          /\ direct.ret.val = << >>
    /\ \A w \in Threads :
          (call[w].pc # "idle" /\ call[w].ds = "train" /\ call[w].test) =>
              /\ call[w].pc # "done"
              /\ hist[w].at \notin {"padded", "cropped"}
              /\ call[w].pc = "error" =>
                    /\ call[w].err = "AssertionError"
                    /\ call[w].work = << >>
                    /\ call[w].stack = << >>

\* reading a train example in test mode raised, on tensors already as long as
\* the crop size
C5_Witness ==
    /\ call[1].pc = "error"
    /\ call[1].ds = "train"
    /\ call[1].test
    /\ TimeLen(hist[1].aligned.input) >= config.train_crop_size

\* C9: after a transform returns, the value passed to it is what it was before
\* the call.
C9_ArgumentUnchanged ==
    direct.op # "none" => direct.arg = direct.arg0

\* ---------------------------------------------------------------- SpecConc
\* Two threads materialize train examples 1 and 2, their stages interleaved.
\* ChainProcess.__call__ of the train chain on one pair, by one thread alone,
\* the global generator in state gen at the call.
TrainExample(d, gen) ==
    LET aligned == ShapeAlignProcess(Repack(BaseSplit(d))).ret
        padded == SplitPadding(add_seed(aligned, gen), FALSE).val
        cropped == SplitCrop(add_seed(padded, GenNext(gen)), FALSE).val
        gen_input == GenSkip(gen, 2)
        gen_target == GenSkip(gen_input, AddNoiseDraws(cropped.input))
    IN  [seeds |-> <<randseed(gen), randseed(GenNext(gen))>>,
         example |->
             [input |-> AddNoiseProcess(NoiseScale("input").g, NoiseScale("input").l,
                                        cropped.input, FALSE, gen_input).val,
              target |-> AddNoiseProcess(NoiseScale("target").g, NoiseScale("target").l,
                                         cropped.target, FALSE, gen_target).val,
              mask |-> cropped.mask],
         gen |-> GenSkip(gen_target, AddNoiseDraws(cropped.target))]

\* the global generator's state when the first example is asked for
Gen0 == 0

InitConc ==
    /\ grng = Gen0
    /\ \E li \in 1..MaxLen, lt \in 1..MaxLen, crop_size \in 1..MaxCrop :
          Pipeline(li, lt, crop_size, <<"f0">>)

NextConc ==
    \E w \in Threads :
        \/ GetExample(w, "train", w, FALSE)
        \/ Stage(w)

SpecConc == InitConc /\ [][NextConc]_vars

\* C8: an example materialized while another is in progress is handed the seeds,
\* and is the example, it gets when the examples are materialized one after
\* another, in either order.
C8_OrderIndependent ==
    \A w \in Threads :
        call[w].pc = "done" =>
            LET other == CHOOSE v \in Threads : v # w
                first == TrainExample(hist[w].pair, Gen0)
                second == TrainExample(hist[w].pair,
                                       TrainExample(datasets.train.data[other], Gen0).gen)
            IN  /\ hist[w].seeds = first.seeds
                /\ hist[w].seeds = second.seeds
                /\ call[w].work = first.example
                /\ call[w].work = second.example

\* not a claim: a thread that runs alone gets what the composed chain gives
AloneAgrees ==
    (call[1].pc = "done" /\ call[2].pc = "idle") =>
        /\ hist[1].seeds = TrainExample(hist[1].pair, Gen0).seeds
        /\ call[1].work = TrainExample(hist[1].pair, Gen0).example

====
